---- MODULE Spec2Model ----
(***************************************************************************)
(* Model of the Streamlit bookkeeping script src/App.py.                   *)
(*                                                                         *)
(* The program state is st.session_state: the list "transactions" and the  *)
(* pending "edit_index".  Every user interaction is one run of the script  *)
(* from top to bottom; an action of the model is one such run.  A run that  *)
(* ends at st.experimental_rerun() sets "rerun_requested", and the rerun    *)
(* the script runner then starts is a run, and an action, of its own.      *)
(* "outcome" records what the last run did and showed (st.error text,      *)
(* uncaught exception); "view" records what the last page render computed  *)
(* (the data frames and the totals).                                       *)
(*                                                                         *)
(* List positions are Python's (0-based); the sequences of the model are   *)
(* 1-based, so position i of the list is element i + 1 of the sequence.    *)
(* Amounts, balances and totals are binary64 floats, added and subtracted  *)
(* as Python adds and subtracts them.  Dates are day numbers.  Texts are   *)
(* sequences of characters.                                                *)
(* The Subcategory column is carried along by the script and read by no    *)
(* modelled operation; it is left out of the records.                      *)
(***************************************************************************)
EXTENDS Integers, Sequences, FiniteSets

VARIABLES transactions, edit_index, outcome, view, rerun_requested

vars == <<transactions, edit_index, outcome, view, rerun_requested>>

\* ---------------------------------------------------------------- bounds
\* The longest list the model lets the forms build.
MaxTx == 3

\* ----------------------------------------------------------------- floats
\* Amounts, balances and totals are Python floats (IEEE 754 binary64):
\* st.number_input returns a float, "balance += ..." and Series.sum() add
\* floats.  A float of the model is (-1)^neg * man * 2^exp.  The natural
\* number man is a sequence of digits in base 2^15, least significant
\* first and without leading zeros, and it is odd, so each number has one
\* representation; zero has the empty man.  The numbers of the model are
\* far from the overflow and subnormal ranges.
Float(neg, man, exp) == [neg |-> neg, man |-> man, exp |-> exp]

\* 0.0
Zero == Float(FALSE, << >>, 0)

\* The significand of a binary64 number holds 53 bits.
Precision == 53

\* Bits in a digit of man.
DigitBits == 15

Digit(m, i) == IF i >= 1 /\ i <= Len(m) THEN m[i] ELSE 0

\* Bit i of m, bit 1 being the lowest.
Bit(m, i) ==
  (Digit(m, (i - 1) \div DigitBits + 1) \div 2^((i - 1) % DigitBits)) % 2

RECURSIVE StripHigh(_)
\* m without its leading zero digits.
StripHigh(m) ==
  IF m = << >> \/ m[Len(m)] # 0 THEN m ELSE StripHigh(SubSeq(m, 1, Len(m) - 1))

\* m * 2^k
ShiftLeft(m, k) ==
  LET q == k \div DigitBits
      r == k % DigitBits
  IN  StripHigh([i \in 1..(Len(m) + q + 1) |->
                   (Digit(m, i - q) % 2^(DigitBits - r)) * 2^r
                     + Digit(m, i - q - 1) \div 2^(DigitBits - r)])

\* m \div 2^k
ShiftRight(m, k) ==
  LET q == k \div DigitBits
      r == k % DigitBits
  IN  StripHigh([i \in 1..(Len(m) - q) |->
                   Digit(m, i + q) \div 2^r
                     + (Digit(m, i + q + 1) % 2^r) * 2^(DigitBits - r)])

\* The number of bits of m, for m > 0 without leading zero digits.
BitLength(m) ==
  (Len(m) - 1) * DigitBits
    + CHOOSE w \in 1..DigitBits : 2^(w - 1) <= m[Len(m)] /\ m[Len(m)] < 2^w

\* The number of zero bits below the lowest one bit of m, for m > 0.
LowZeros(m) ==
  CHOOSE z \in 0..(Len(m) * DigitBits - 1) :
     Bit(m, z + 1) = 1 /\ \A i \in 1..z : Bit(m, i) = 0

RECURSIVE SumDigits(_, _, _, _, _)
\* Digits i .. n of a + b, given the carry into digit i.
SumDigits(a, b, i, n, carry) ==
  IF i > n THEN << >>
  ELSE LET s == Digit(a, i) + Digit(b, i) + carry
       IN  <<s % 2^DigitBits>> \o SumDigits(a, b, i + 1, n, s \div 2^DigitBits)

\* a + b
AddDigits(a, b) ==
  StripHigh(SumDigits(a, b, 1, (IF Len(a) > Len(b) THEN Len(a) ELSE Len(b)) + 1, 0))

RECURSIVE DiffDigits(_, _, _, _, _)
\* Digits i .. n of a - b (a >= b), given the borrow out of digit i.
DiffDigits(a, b, i, n, borrow) ==
  IF i > n THEN << >>
  ELSE LET s == Digit(a, i) - Digit(b, i) - borrow
       IN  <<IF s < 0 THEN s + 2^DigitBits ELSE s>>
             \o DiffDigits(a, b, i + 1, n, IF s < 0 THEN 1 ELSE 0)

\* a - b, for a >= b
SubDigits(a, b) == StripHigh(DiffDigits(a, b, 1, Len(a), 0))

RECURSIVE LessFrom(_, _, _)
\* a < b, decided by the highest digit, at or below digit i, where they
\* differ.
LessFrom(a, b, i) ==
  IF i = 0 THEN FALSE
  ELSE IF Digit(a, i) # Digit(b, i) THEN Digit(a, i) < Digit(b, i)
  ELSE LessFrom(a, b, i - 1)

LessDigits(a, b) == LessFrom(a, b, IF Len(a) > Len(b) THEN Len(a) ELSE Len(b))

\* The float of the number (-1)^neg * m * 2^exp, when m fits the
\* significand.
Exact(neg, m, exp) ==
  IF m = << >> THEN Zero
  ELSE Float(neg, ShiftRight(m, LowZeros(m)), exp + LowZeros(m))

\* The float nearest to the number (-1)^neg * m * 2^exp: the bits below the
\* 53 highest are dropped, and the last bit kept is rounded up when the
\* dropped part is above half of it, or is half of it and the last bit kept
\* is odd (round half to even).
Round(neg, m, exp) ==
  LET d == BitLength(m) - Precision
      kept == ShiftRight(m, d)
      half == Bit(m, d) = 1
      above == \E i \in 1..(d - 1) : Bit(m, i) = 1
      up == half /\ (above \/ Bit(kept, 1) = 1)
  IN  IF m = << >> THEN Zero
      ELSE IF d <= 0 THEN Exact(neg, m, exp)
      ELSE Exact(neg, IF up THEN AddDigits(kept, <<1>>) ELSE kept, exp + d)

\* x + y: the exact sum, rounded once.
FloatAdd(x, y) ==
  LET exp == IF x.exp < y.exp THEN x.exp ELSE y.exp
      mx == ShiftLeft(x.man, x.exp - exp)
      my == ShiftLeft(y.man, y.exp - exp)
  IN  IF x.man = << >> THEN y
      ELSE IF y.man = << >> THEN x
      ELSE IF x.neg = y.neg THEN Round(x.neg, AddDigits(mx, my), exp)
      ELSE IF LessDigits(mx, my) THEN Round(y.neg, SubDigits(my, mx), exp)
      ELSE Round(x.neg, SubDigits(mx, my), exp)

\* -x
FloatNeg(x) == IF x.man = << >> THEN x ELSE Float(~x.neg, x.man, x.exp)

\* x - y
FloatSub(x, y) == FloatAdd(x, FloatNeg(y))

\* x <= 0
FloatLeZero(x) == x.neg \/ x.man = << >>

\* 1.0
One == Float(FALSE, <<1>>, 0)

\* 0.1 as st.number_input returns it: the float nearest to one tenth,
\* 3602879701896397 * 2^-55 (0x3FB999999999999A).
Tenth == Float(FALSE, <<19661,6553,13107,102>>, -55)

\* ---------------------------------------------------------- input domains
\* Python's None where the value is otherwise a string (tx_type).
None == "None"

\* st.session_state.edit_index is None (<< >>) or a list position (<<i>>).
NoIndex == << >>

\* Falsy values of the optional arguments of filter_transactions: None and
\* the empty list are both the empty set, None and "" are both the empty
\* text, None is the empty tuple.  "if x:" treats each pair alike.
NoCategories == {}
NoKeyword == << >>
NoDateRange == << >>

Types == {"Income", "Expense"}

\* Texts typed into the Description field ("" is the untouched field).
Texts == {<<>>, <<"x">>}

\* Days picked in the date_input widgets.
Dates == {1, 2}

Categories == {"Rent", "Sales"}

\* The options of the category selectbox of each form.
default_categories(tx_type) ==
  IF tx_type = "Expense"
    THEN {"Rent", "Utilities", "Marketing", "Payroll", "Other"}
    ELSE {"Sales", "Services", "Other"}

\* First option of the category selectbox of each form.
DefaultCategory(tx_type) == IF tx_type = "Expense" THEN "Rent" ELSE "Sales"

\* The option the category selectbox of the edit form starts on: the
\* record's category when it is an option, else the first option.
EditSelected(tx, tx_type) ==
  IF tx.Category \in default_categories(tx_type)
    THEN tx.Category ELSE DefaultCategory(tx_type)

\* The text the custom category field of the edit form starts with: the
\* record's category when it is no option of the selectbox.
EditCustom(tx, tx_type) ==
  IF tx.Category \in default_categories(tx_type) THEN "" ELSE tx.Category

\* str.strip() on the custom category texts of the model.
Strip(s) == IF s = " " THEN "" ELSE s

\* category = selectbox value, overridden by a non-blank custom text.
ChosenCategory(selected, custom) ==
  IF Strip(custom) # "" THEN Strip(custom) ELSE selected

\* The dict built by add_transaction and by the edit form.
Tx(tx_type, description, amount, category, tx_date, notes) ==
  [Type |-> tx_type, Description |-> description, Amount |-> amount,
   Category |-> category, Date |-> tx_date, Notes |-> notes]

\* ------------------------------------------------------- helper functions
add_transaction(txs, tx_type, description, amount, category, tx_date, notes) ==
  Append(txs, Tx(tx_type, description, amount, category, tx_date, notes))

\* Python list indexing: a negative index counts from the end; anything
\* outside -len .. len-1 raises IndexError.
ListPos(txs, index) == IF index < 0 THEN index + Len(txs) ELSE index

IndexOk(txs, index) == ListPos(txs, index) >= 0 /\ ListPos(txs, index) < Len(txs)

\* transactions[index] = tx
edit_transaction(txs, index, tx) ==
  IF IndexOk(txs, index)
    THEN [raised |-> FALSE, list |-> [txs EXCEPT ![ListPos(txs, index) + 1] = tx]]
    ELSE [raised |-> TRUE, list |-> txs]

\* transactions.pop(index): the later elements move down one position.
delete_transaction(txs, index) ==
  IF IndexOk(txs, index)
    THEN [raised |-> FALSE,
          list |-> [k \in 1..(Len(txs) - 1) |->
                      IF k < ListPos(txs, index) + 1 THEN txs[k] ELSE txs[k + 1]]]
    ELSE [raised |-> TRUE, list |-> txs]

\* ------------------------------------------------------------ data frames
\* pd.DataFrame(tx_list): one row per list element, in list order, labelled
\* with its list position (the RangeIndex 0 .. n-1).  Every dict the forms
\* store holds all the columns and a date, so the defaults of clean_tx
\* never apply.
DataFrame(txs) ==
  [i \in 1..Len(txs) |->
     [idx |-> i - 1, Type |-> txs[i].Type, Description |-> txs[i].Description,
      Amount |-> txs[i].Amount, Category |-> txs[i].Category,
      Date |-> txs[i].Date, Notes |-> txs[i].Notes]]

\* df.sort_values("Date") orders the rows ascending by Date.  The default
\* kind, quicksort, sorts a run of at most 16 elements by insertion: each
\* row in turn moves up past the rows of strictly later Date, so rows of
\* equal Date stay in their order in df.  The data frames of the model are
\* that short.
InsertByDate(sorted, row) ==
  LET later == {k \in 1..Len(sorted) : sorted[k].Date > row.Date}
      at == IF later = {} THEN Len(sorted) + 1
            ELSE CHOOSE k \in later : \A l \in later : k <= l
  IN  [k \in 1..(Len(sorted) + 1) |->
         IF k < at THEN sorted[k] ELSE IF k = at THEN row ELSE sorted[k - 1]]

RECURSIVE SortedPrefix(_, _)
\* The first n rows of df, sorted.
SortedPrefix(df, n) ==
  IF n = 0 THEN << >> ELSE InsertByDate(SortedPrefix(df, n - 1), df[n])

sort_values(df) == SortedPrefix(df, Len(df))

RECURSIVE BalanceAfter(_, _)
\* The value of "balance" after the loop has visited the first k rows:
\* balance += Amount for Income, balance -= Amount for anything else.
BalanceAfter(rows, k) ==
  IF k = 0 THEN Zero
  ELSE IF rows[k].Type = "Income"
         THEN FloatAdd(BalanceAfter(rows, k - 1), rows[k].Amount)
         ELSE FloatSub(BalanceAfter(rows, k - 1), rows[k].Amount)

\* The list "balances" built by the loop over the sorted rows.
Balances(rows) == [k \in 1..Len(rows) |-> BalanceAfter(rows, k)]

\* df["Running Balance"] = balances: the k-th balance goes to the k-th row
\* of df, and df is still in list order.
calculate_running_balance(txs) ==
  LET df == DataFrame(txs)
      balances == Balances(sort_values(df))
  IN  [i \in 1..Len(df) |->
         [idx |-> df[i].idx, Type |-> df[i].Type,
          Description |-> df[i].Description, Amount |-> df[i].Amount,
          Category |-> df[i].Category, Date |-> df[i].Date,
          Notes |-> df[i].Notes, RunningBalance |-> balances[i]]]

\* ---------------------------------------------------------------- filter
LowerChar(c) == IF c = "X" THEN "x" ELSE IF c = "Y" THEN "y" ELSE c

Lower(text) == [k \in 1..Len(text) |-> LowerChar(text[k])]

\* Series.str.contains(keyword, case=False): keyword occurs in text,
\* letter case ignored (the texts of the model hold no regex operator).
Contains(text, keyword) ==
  \E k \in 0..(Len(text) - Len(keyword)) :
     SubSeq(Lower(text), k + 1, k + Len(keyword)) = Lower(keyword)

TypeIs(row, tx_type) == row.Type = tx_type

CategoryIn(row, categories) == row.Category \in categories

KeywordIn(row, keyword) ==
  Contains(row.Description, keyword) \/ Contains(row.Notes, keyword)

\* A date test that leaves out the end day.
DateInBeforeEnd(row, date_range) ==
  row.Date >= date_range[1] /\ row.Date < date_range[2]

\* pd.to_datetime turns a date into the midnight of that day, on both sides
\* of the comparison; the order and equality of days are those of the dates.
DateIn(row, date_range) ==
  row.Date >= date_range[1] /\ row.Date <= date_range[2]

\* Each "if argument:" keeps the rows passing its test; a boolean mask
\* keeps the rows' order, labels and columns.  A falsy argument (None, "",
\* empty list) leaves df as it is.
FilterRows(df0, tx_type, categories, keyword, date_range) ==
  LET ByType(row) == TypeIs(row, tx_type)
      ByCategory(row) == CategoryIn(row, categories)
      ByKeyword(row) == KeywordIn(row, keyword)
      ByDate(row) == DateIn(row, date_range)
      df1 == IF tx_type # None /\ tx_type # "" THEN SelectSeq(df0, ByType) ELSE df0
      df2 == IF categories # NoCategories THEN SelectSeq(df1, ByCategory) ELSE df1
      df3 == IF keyword # NoKeyword THEN SelectSeq(df2, ByKeyword) ELSE df2
      df4 == IF date_range # NoDateRange THEN SelectSeq(df3, ByDate) ELSE df3
  IN  IF df0 = << >> THEN df0 ELSE df4

\* A filter that computes the balance over the rows it kept.
filter_transactions_rebalanced(txs, tx_type, categories, keyword, date_range) ==
  LET kept == FilterRows(calculate_running_balance(txs),
                         tx_type, categories, keyword, date_range)
  IN  [k \in 1..Len(kept) |->
         [kept[k] EXCEPT !.RunningBalance = BalanceAfter(kept, k)]]

\* df = calculate_running_balance(), then the tests.
filter_transactions(txs, tx_type, categories, keyword, date_range) ==
  FilterRows(calculate_running_balance(txs),
             tx_type, categories, keyword, date_range)

\* ---------------------------------------------------------------- totals
RECURSIVE SumAmounts(_, _, _)
\* df[df["Type"] == tx_type]["Amount"].sum() over the first k rows.  The
\* sum of a float64 column of fewer than 8 values starts from 0.0 and adds
\* the values one by one, in row order; the data frames of the model are
\* that short.
SumAmounts(df, tx_type, k) ==
  IF k = 0 THEN Zero
  ELSE IF df[k].Type = tx_type
         THEN FloatAdd(SumAmounts(df, tx_type, k - 1), df[k].Amount)
         ELSE SumAmounts(df, tx_type, k - 1)

Total(df, tx_type) == SumAmounts(df, tx_type, Len(df))

Net(total_income, total_expense) == FloatSub(total_income, total_expense)

\* ------------------------------------------------------------ form inputs
\* What the user puts into the add forms: an Amount (a float; min_value =
\* 0.0 keeps it >= 0), a Date, the custom category field left empty (so
\* the selectbox value stands) and Notes.
FormAmounts == {Zero, One}
FormDates == {1}
FormCustomTexts == {""}
FormNotes == {<<>>}

\* What the user leaves in the Description and Amount fields of the edit
\* form: a text and a positive amount, or both cleared.
EditFields == {<<<<"x">>, One>>, <<<< >>, Zero>>}

\* A custom category text the user blanks in the edit form.
BlankCustomText == " "

\* Arguments of filter_transactions.  The Transactions page always passes a
\* (start, end) tuple; the function itself also accepts none.
FilterTypes == {None, "Income", "Expense"}
FilterCategories == {NoCategories, {"Rent"}}
FilterKeywords == {NoKeyword, <<"X">>, <<"y">>}
FilterDateRanges == {NoDateRange, <<1, 1>>, <<2, 2>>}

FilterArgs ==
  (FilterTypes \X FilterCategories \X {NoKeyword} \X FilterDateRanges)
  \cup ({None} \X {NoCategories} \X (FilterKeywords \ {NoKeyword}) \X {NoDateRange})

PageFilterArgs == {a \in FilterArgs : a[4] # NoDateRange}

\* ---------------------------------------------------------------- outcome
DescriptionRequired == "Description is required."
AmountPositive == "Amount must be greater than 0."

\* What a run did: the widget that fired, the row it belonged to, the
\* Description and Amount of a submitted add form, the st.error text shown
\* and whether the run ended in an uncaught IndexError.
Outcome(op, idx, description, amount, error, raised) ==
  [op |-> op, idx |-> idx, description |-> description, amount |-> amount,
   error |-> error, raised |-> raised]

NoView ==
  [page |-> "none", args |-> <<None, NoCategories, NoKeyword, NoDateRange>>,
   sorted |-> << >>, balances |-> << >>, df |-> << >>, filtered_df |-> << >>,
   total_income |-> Zero, total_expense |-> Zero, net |-> Zero]

\* ------------------------------------------------------------------ script
\* A validation that refuses negative amounts only.
ValidationErrorNegativeOnly(description, amount) ==
  IF description = << >> THEN DescriptionRequired
  ELSE IF amount.neg THEN AmountPositive
  ELSE ""

\* if not description: ... elif amount <= 0: ... else: add_transaction(...)
ValidationError(description, amount) ==
  IF description = << >> THEN DescriptionRequired
  ELSE IF FloatLeZero(amount) THEN AmountPositive
  ELSE ""

\* The edit section runs on every page: with edit_index set it reads
\* transactions[idx], which raises IndexError for a position past the end.
ModalRaises(txs, ei) == ei # NoIndex /\ ~IndexOk(txs, ei[1])

\* The labels of the rows the Edit/Delete loop can draw buttons for: the
\* rows of filtered_df = filter_transactions(...), for some values of the
\* filter widgets (df does not depend on them).
ButtonRows(txs) ==
  LET df == calculate_running_balance(txs)
  IN  {idx \in 0..(Len(txs) - 1) :
         \E a \in PageFilterArgs :
            LET filtered_df == FilterRows(df, a[1], a[2], a[3], a[4])
            IN  \E k \in 1..Len(filtered_df) : filtered_df[k].idx = idx}

Init ==
  /\ transactions = << >>
  /\ edit_index = NoIndex
  /\ outcome = Outcome("start", NoIndex, << >>, Zero, "", FALSE)
  /\ view = NoView
  /\ rerun_requested = FALSE

\* "Add Expense" / "Add Income" pressed on the Transactions page.
SubmitAdd(tx_type, description, amount, selected, custom, tx_date, notes) ==
  LET error == ValidationError(description, amount)
      category == ChosenCategory(selected, custom)
      txs == IF error = ""
               THEN add_transaction(transactions, tx_type, description, amount,
                                    category, tx_date, notes)
               ELSE transactions
  IN  /\ ~rerun_requested
      /\ Len(txs) <= MaxTx
      /\ transactions' = txs
      /\ outcome' = Outcome("add", NoIndex, description, amount, error,
                            ModalRaises(txs, edit_index))
      /\ UNCHANGED <<edit_index, view, rerun_requested>>

\* "Edit" pressed in the row labelled idx.
ClickEdit(idx) ==
  /\ ~rerun_requested
  /\ idx \in ButtonRows(transactions)
  /\ edit_index' = <<idx>>
  /\ outcome' = Outcome("edit", <<idx>>, << >>, Zero, "",
                        ModalRaises(transactions, <<idx>>))
  /\ UNCHANGED <<transactions, view, rerun_requested>>

\* "Delete" pressed in the row labelled idx: the run pops the record and
\* ends at st.experimental_rerun(), before the edit section; the rerun is a
\* run of its own.
ClickDelete(idx) ==
  LET res == delete_transaction(transactions, idx)
  IN  /\ ~rerun_requested
      /\ idx \in ButtonRows(transactions)
      /\ transactions' = res.list
      /\ outcome' = Outcome("delete", <<idx>>, << >>, Zero, "", res.raised)
      /\ rerun_requested' = ~res.raised
      /\ UNCHANGED <<edit_index, view>>

\* The custom category texts of the edit form when Save Changes is
\* pressed with tx_type selected: the text the field starts with, or the
\* field blanked by the user.  There is a form only for a pending edit of
\* a position of the list.
EditCustomTexts(txs, ei, tx_type) ==
  IF ei # NoIndex /\ IndexOk(txs, ei[1])
    THEN {BlankCustomText, EditCustom(txs[ListPos(txs, ei[1]) + 1], tx_type)}
    ELSE {}

\* The option of the category selectbox of that form.
EditSelectedOf(txs, ei, tx_type) ==
  IF ei # NoIndex /\ IndexOk(txs, ei[1])
    THEN EditSelected(txs[ListPos(txs, ei[1]) + 1], tx_type)
    ELSE DefaultCategory(tx_type)

\* "Save Changes" pressed in the edit form: the run stores the record,
\* shows st.success, clears edit_index and ends at st.experimental_rerun().
\* The form is on screen only when the previous run got past
\* transactions[idx].
SaveChanges(tx_type, description, amount, selected, custom, tx_date, notes) ==
  /\ ~rerun_requested
  /\ edit_index # NoIndex
  /\ ~ModalRaises(transactions, edit_index)
  /\ LET res == edit_transaction(transactions, edit_index[1],
                   Tx(tx_type, description, amount,
                      ChosenCategory(selected, custom), tx_date, notes))
     IN  /\ transactions' = res.list
         /\ outcome' = Outcome("save", edit_index, << >>, Zero, "", res.raised)
         /\ edit_index' = IF res.raised THEN edit_index ELSE NoIndex
         /\ rerun_requested' = ~res.raised
  /\ UNCHANGED view

\* "Save Changes" pressed, and another interaction of the user arrives
\* while the run is under way: Streamlit ends the run at the next element
\* call, st.success, after edit_transaction and before edit_index is
\* cleared, and the run of that interaction follows.
SaveChangesInterrupted(tx_type, description, amount, selected, custom, tx_date, notes) ==
  /\ ~rerun_requested
  /\ edit_index # NoIndex
  /\ ~ModalRaises(transactions, edit_index)
  /\ LET res == edit_transaction(transactions, edit_index[1],
                   Tx(tx_type, description, amount,
                      ChosenCategory(selected, custom), tx_date, notes))
     IN  /\ transactions' = res.list
         /\ outcome' = Outcome("save", edit_index, << >>, Zero, "", res.raised)
  /\ UNCHANGED <<edit_index, view, rerun_requested>>

\* Any other interaction (navigation, a filter widget): a run that presses
\* nothing.
Rerun ==
  /\ ~rerun_requested
  /\ outcome' = Outcome("rerun", NoIndex, << >>, Zero, "",
                        ModalRaises(transactions, edit_index))
  /\ UNCHANGED <<transactions, edit_index, view, rerun_requested>>

\* The run the script runner starts after st.experimental_rerun(): no
\* widget is pressed, and the edit section is reached.  Its outcome keeps
\* the row of the Delete or Save Changes run that asked for it.
experimental_rerun ==
  /\ rerun_requested
  /\ outcome' = Outcome(IF outcome.op = "delete" THEN "rerun after delete"
                                                 ELSE "rerun after save",
                        outcome.idx, << >>, Zero, "",
                        ModalRaises(transactions, edit_index))
  /\ rerun_requested' = FALSE
  /\ UNCHANGED <<transactions, edit_index, view>>

Next ==
  \/ \E tx_type \in Types, description \in Texts, amount \in FormAmounts,
        custom \in FormCustomTexts, tx_date \in FormDates, notes \in FormNotes :
        SubmitAdd(tx_type, description, amount, DefaultCategory(tx_type),
                  custom, tx_date, notes)
  \/ \E idx \in 0..(MaxTx - 1) : ClickEdit(idx)
  \/ \E idx \in 0..(MaxTx - 1) : ClickDelete(idx)
  \/ \E tx_type \in Types, fields \in EditFields,
        tx_date \in FormDates, notes \in FormNotes :
        \E custom \in EditCustomTexts(transactions, edit_index, tx_type) :
           SaveChanges(tx_type, fields[1], fields[2],
                       EditSelectedOf(transactions, edit_index, tx_type),
                       custom, tx_date, notes)
  \/ \E tx_type \in Types, fields \in EditFields,
        tx_date \in FormDates, notes \in FormNotes :
        \E custom \in EditCustomTexts(transactions, edit_index, tx_type) :
           SaveChangesInterrupted(tx_type, fields[1], fields[2],
                       EditSelectedOf(transactions, edit_index, tx_type),
                       custom, tx_date, notes)
  \/ Rerun
  \/ experimental_rerun

Spec == Init /\ [][Next]_vars

\* ------------------------------------------------------------ page renders
\* The records of the ledgers whose pages are rendered: every type,
\* category and day, with an amount and a description the add forms accept.
LedgerAmount(category) == IF category = "Rent" THEN Tenth ELSE One

LedgerDescription(tx_type) == IF tx_type = "Income" THEN <<"x">> ELSE <<"X", "y">>

LedgerRecords ==
  {Tx(tx_type, LedgerDescription(tx_type), LedgerAmount(category), category,
      tx_date, << >>) :
     tx_type \in Types, category \in Categories, tx_date \in Dates}

Ledgers == UNION {[1..n -> LedgerRecords] : n \in 0..MaxTx}

InitView ==
  /\ transactions \in Ledgers
  /\ edit_index = NoIndex
  /\ outcome = Outcome("start", NoIndex, << >>, Zero, "", FALSE)
  /\ view = NoView
  /\ rerun_requested = FALSE

\* The views are functions of the ledger and change no session state, so
\* the view specification renders one page per ledger: any ledger the forms
\* can build, any page, any filter arguments.

\* A run with the Dashboard page selected.
Dashboard ==
  LET sorted == sort_values(DataFrame(transactions))
      df == calculate_running_balance(transactions)
      total_income == Total(df, "Income")
      total_expense == Total(df, "Expense")
  IN  /\ view = NoView
      /\ view' = [page |-> "Dashboard",
                  args |-> <<None, NoCategories, NoKeyword, NoDateRange>>,
                  sorted |-> sorted, balances |-> Balances(sorted),
                  df |-> df, filtered_df |-> << >>,
                  total_income |-> total_income,
                  total_expense |-> total_expense,
                  net |-> Net(total_income, total_expense)]
      /\ outcome' = Outcome("rerun", NoIndex, << >>, Zero, "",
                            ModalRaises(transactions, edit_index))
      /\ UNCHANGED <<transactions, edit_index, rerun_requested>>

\* A run with the Transactions page selected and the filter widgets set to
\* a: the page calls filter_transactions and shows its result.
TransactionsPage(a) ==
  /\ view = NoView
  /\ view' = [page |-> "Transactions", args |-> a,
              sorted |-> << >>, balances |-> << >>, df |-> << >>,
              filtered_df |-> filter_transactions(transactions,
                                a[1], a[2], a[3], a[4]),
              total_income |-> Zero, total_expense |-> Zero, net |-> Zero]
  /\ outcome' = Outcome("rerun", NoIndex, << >>, Zero, "",
                        ModalRaises(transactions, edit_index))
  /\ UNCHANGED <<transactions, edit_index, rerun_requested>>

NextView ==
  \/ Dashboard
  \/ \E a \in FilterArgs : TransactionsPage(a)

ViewSpec == InitView /\ [][NextView]_vars

\* -------------------------------------------------------------------
\* Properties of the session (specification Spec)
\* -------------------------------------------------------------------

\* C1: a delete leaves every other position resolving to the record it
\* resolved to before: after Delete on row i, each position j # i of the old
\* list is still a position of the list and still holds the same record.
C1_DeleteKeepsOtherIdentities ==
  [][outcome'.op = "delete" =>
       \A j \in 0..(Len(transactions) - 1) :
          j # outcome'.idx[1] =>
            /\ j < Len(transactions')
            /\ transactions'[j + 1] = transactions[j + 1]]_vars

\* C2: every stored record has Amount > 0 and a non-empty Description,
\* whatever adds, edits and deletes came before.
C2_StoredRecordsValid ==
  \A k \in 1..Len(transactions) :
     ~FloatLeZero(transactions[k].Amount) /\ transactions[k].Description # << >>

\* C5: an update addressed to an identity that has been deleted fails and
\* modifies nothing: when the row a pending edit points at has just been
\* deleted (the Delete run and its rerun are over), Save Changes ends in
\* the error and leaves the list as it was.
C5_StaleIdentityRejected ==
  [][(/\ outcome.op = "rerun after delete"
      /\ edit_index # NoIndex
      /\ outcome.idx = edit_index
      /\ outcome'.op = "save")
       => (transactions' = transactions /\ outcome'.raised)]_vars

\* C6: an add with an empty Description or an Amount <= 0 shows the error
\* of the first failing field (Description before Amount) and leaves the
\* list exactly as it was.
C6_InvalidAddRejected ==
  [][outcome'.op = "add" =>
       /\ outcome'.description = << >> =>
            (outcome'.error = DescriptionRequired /\ transactions' = transactions)
       /\ (outcome'.description # << >> /\ FloatLeZero(outcome'.amount)) =>
            (outcome'.error = AmountPositive /\ transactions' = transactions)]_vars

\* C6 happens: an add with both fields invalid was refused, on a list that
\* holds records, with the Description error shown.
C6_Witness ==
  /\ outcome.op = "add"
  /\ outcome.description = << >>
  /\ outcome.amount = Zero
  /\ outcome.error = DescriptionRequired
  /\ Len(transactions) >= 1

\* C10: while an edit is pending, edit_index stays a position of the list
\* and keeps denoting the record Edit was clicked on: no run that leaves the
\* edit pending moves the list's end below it, and none but a Save Changes
\* of that edit changes the record there.
C10_PendingEditDenotesClickedRecord ==
  [][(edit_index # NoIndex /\ edit_index' = edit_index) =>
       /\ IndexOk(transactions', edit_index[1])
       /\ (IndexOk(transactions, edit_index[1]) /\ outcome'.op # "save") =>
            transactions'[edit_index[1] + 1] = transactions[edit_index[1] + 1]]_vars

\* -------------------------------------------------------------------
\* Properties of the page renders (specification ViewSpec)
\* -------------------------------------------------------------------

\* The contribution of a record to the balance, as the specification of the
\* ledger states it.
Contribution(r) == IF r.Type = "Income" THEN r.Amount ELSE FloatNeg(r.Amount)

\* C3: the sequence calculate_running_balance returns is in ascending date
\* order, and each record's balance is the balance of the record before it
\* plus its amount (Income) or minus its amount (Expense), starting from 0.
C3_RunningBalanceChronological ==
  view.page = "Dashboard" =>
    /\ \A k \in 1..(Len(view.df) - 1) : view.df[k].Date <= view.df[k + 1].Date
    /\ \A k \in 1..Len(view.df) :
          view.df[k].RunningBalance =
            FloatAdd(IF k = 1 THEN Zero ELSE view.df[k - 1].RunningBalance,
                     Contribution(view.df[k]))

\* C4: among records of one date the running balance takes in every Income
\* before any Expense: in the order the balance loop visits the rows, no
\* Expense comes before an Income of the same date.
C4_SameDayIncomeFirst ==
  view.page = "Dashboard" =>
    \A i, j \in 1..Len(view.sorted) :
       (i < j /\ view.sorted[i].Date = view.sorted[j].Date) =>
         ~(view.sorted[i].Type = "Expense" /\ view.sorted[j].Type = "Income")

\* The positions of the list whose record passes every supplied test.
Matching(txs, tx_type, categories, date_range) ==
  {i \in 1..Len(txs) :
     /\ tx_type = None \/ txs[i].Type = tx_type
     /\ categories = NoCategories \/ txs[i].Category \in categories
     /\ date_range = NoDateRange
          \/ (date_range[1] <= txs[i].Date /\ txs[i].Date <= date_range[2])}

\* C7: filter returns exactly the records that pass every supplied test at
\* once (type equal, category a member, start <= date <= end, ends
\* included); an absent test restricts nothing; each matching record is
\* returned once, with its own fields.
C7_FilterReturnsExactlyMatching ==
  (view.page = "Transactions" /\ view.args[3] = NoKeyword) =>
    LET rows == view.filtered_df
    IN  /\ {rows[k].idx + 1 : k \in 1..Len(rows)}
             = Matching(transactions, view.args[1], view.args[2], view.args[4])
        /\ \A k, l \in 1..Len(rows) : k # l => rows[k].idx # rows[l].idx
        /\ \A k \in 1..Len(rows) :
              LET r == transactions[rows[k].idx + 1]
              IN  /\ rows[k].Type = r.Type
                  /\ rows[k].Amount = r.Amount
                  /\ rows[k].Category = r.Category
                  /\ rows[k].Date = r.Date
                  /\ rows[k].Description = r.Description

\* C7 happens: a type, a category set and a date range were all supplied
\* on a list of three records, and exactly one record came back.
C7_Witness ==
  /\ view.page = "Transactions"
  /\ view.args = <<"Expense", {"Rent"}, NoKeyword, <<1, 1>>>>
  /\ Len(transactions) = 3
  /\ Len(view.filtered_df) = 1

\* C8: each row filter returns carries the running balance that
\* calculate_running_balance attaches to that record over the whole list.
C8_FilterKeepsUnfilteredBalance ==
  view.page = "Transactions" =>
    \A k \in 1..Len(view.filtered_df) :
       view.filtered_df[k]
         = calculate_running_balance(transactions)[view.filtered_df[k].idx + 1]

\* C8 happens: the filter kept one record of three, and its balance is not
\* what that record alone would give.
C8_Witness ==
  /\ view.page = "Transactions"
  /\ Len(transactions) = 3
  /\ Len(view.filtered_df) = 1
  /\ view.filtered_df[1].RunningBalance # Contribution(view.filtered_df[1])

\* The orderings of n records.
Perms(n) ==
  {q \in [1..n -> 1..n] : \A i, j \in 1..n : i # j => q[i] # q[j]}

\* The list with its records in the order q.
Reordered(txs, q) == [k \in 1..Len(txs) |-> txs[q[k]]]

\* C9: the totals do not depend on the order of the records, and the net
\* is the income total minus the expense total: every reordering of the
\* list gives the totals the Dashboard showed.
C9_SummaryOrderIndependent ==
  view.page = "Dashboard" =>
    /\ view.net = FloatSub(view.total_income, view.total_expense)
    /\ \A q \in Perms(Len(transactions)) :
          LET df == DataFrame(Reordered(transactions, q))
          IN  /\ Total(df, "Income") = view.total_income
              /\ Total(df, "Expense") = view.total_expense
              /\ Net(Total(df, "Income"), Total(df, "Expense")) = view.net

====
